---- MODULE Spec2Model ----
(***************************************************************************)
(* A model of the Baseball-Reference splits scraper (src/Main.py) and of   *)
(* the Streamlit form that calls it (src/bbref_splits_app.py).             *)
(*                                                                         *)
(* Texts are TLA+ strings.  A cell the DataFrame constructor pads a short  *)
(* row with (Python None) is the reserved text None; a numeric value of a  *)
(* coerced column is the 1-tuple <<n>> and a missing one (NaN / <NA>) the  *)
(* empty tuple.  The optional year argument is <<>> (Python None) or       *)
(* <<y>>.                                                                  *)
(***************************************************************************)
EXTENDS Integers, Sequences, FiniteSets, TLC

VARIABLES
    pc,              \* position of the caller / of get_splits
    caller,          \* "app" (the button handler) or "api" (a direct call)
    playerid,        \* argument of get_splits
    year,            \* argument of get_splits: <<>> is None
    player_info,     \* argument of get_splits
    pitching_splits, \* argument of get_splits
    http,            \* the response session.get returned: status and body
    soup,            \* the parsed page: its table containers and biography
    j,               \* index of the next table container to scan
    raw_data,        \* rows collected for the aggregate group
    raw_level_data,  \* rows collected for the level group
    data,            \* the aggregate table once assembled
    level_data,      \* the level table once assembled
    result,          \* what get_splits returned
    exc,             \* the exception that left get_splits, "none" if none
    shown,           \* what the form displayed: downloads, error or warning
    now,             \* wall clock, in seconds
    sent             \* the times at which requests were sent

vars == <<pc, caller, playerid, year, player_info, pitching_splits, http, soup,
          j, raw_data, raw_level_data, data, level_data, result, exc, shown,
          now, sent>>

-----------------------------------------------------------------------------
(* Bounds of the model.                                                    *)

MaxTables == 3
MaxRequests == 3
MaxClock == 7

-----------------------------------------------------------------------------
(* Text helpers: Python's str and re operations, character by character.   *)

None == "<None>"
NaN == <<>>
Num(n) == <<n>>

Max(a, b) == IF a >= b THEN a ELSE b

Char(s, i) == SubSeq(s, i, i)

\* s[-5:]  (Last5Mutant: the slice taken one character short)
Last5Mutant(s) == SubSeq(s, Max(1, Len(s) - 3), Len(s))
Last5(s) == SubSeq(s, Max(1, Len(s) - 4), Len(s))

Whitespace == {" ", "\n", "\t"}

RECURSIVE LStrip(_)
LStrip(s) ==
    IF Len(s) > 0 /\ Char(s, 1) \in Whitespace THEN LStrip(Tail(s)) ELSE s

RECURSIVE RStrip(_)
RStrip(s) ==
    IF Len(s) > 0 /\ Char(s, Len(s)) \in Whitespace
    THEN RStrip(SubSeq(s, 1, Len(s) - 1))
    ELSE s

\* str.strip()
Strip(s) == RStrip(LStrip(s))

Digits == {"0", "1", "2", "3", "4", "5", "6", "7", "8", "9"}

DigitVal(c) ==
    CASE c = "0" -> 0 [] c = "1" -> 1 [] c = "2" -> 2 [] c = "3" -> 3
      [] c = "4" -> 4 [] c = "5" -> 5 [] c = "6" -> 6 [] c = "7" -> 7
      [] c = "8" -> 8 [] c = "9" -> 9

RECURSIVE DecimalValue(_)
DecimalValue(s) ==
    IF Len(s) = 0 THEN 0
    ELSE 10 * DecimalValue(SubSeq(s, 1, Len(s) - 1)) + DigitVal(Char(s, Len(s)))

\* pd.to_numeric(x, errors='coerce') on one cell: unsigned decimal integers
\* parse, every other text of the model (labels, the empty text, None) is NaN.
to_numeric(s) ==
    IF Len(s) > 0 /\ \A i \in 1..Len(s) : Char(s, i) \in Digits
    THEN Num(DecimalValue(s))
    ELSE NaN

-----------------------------------------------------------------------------
(* The pages the site may serve.  A table container is a caption list and  *)
(* a list of tr rows, each a list of th / td cells.  The site renders a    *)
(* career page with a leading row-index column (a th in every row) and a   *)
(* season page with the row label as the row's th: the two shapes          *)
(* get_splits tells apart by its year argument.  Cell texts and captions   *)
(* are statistics and labels: none of them is a player id.  Header names   *)
(* within one table are distinct.                                          *)

Std == <<"Split", "H", "2B", "3B", "HR">>
Narrow == <<"Split", "H", "2B">>

TableMenu == <<
    [captions |-> <<"Home or Away">>, header |-> Std,
     rows |-> << <<"Home", "9", "2", "1", "3">>,
                 <<"Away", "", "1", "0", "1">> >>],
    [captions |-> <<"\n  Platoon Splits ">>, header |-> Std,
     rows |-> << <<"vs RHP", "7", "1", "0", "2">>,
                 <<"vs LHP", "4">>,
                 <<"Total", "1", "1", "1", "1", "1", "1", "5">> >>],
    [captions |-> <<"By Inning">>, header |-> Std,
     rows |-> << <<"1st inning", "3", "1", "0", "0">> >>],
    [captions |-> <<"Game Level">>, header |-> Std,
     rows |-> << <<"Win", "5", "1", "0", "1">>,
                 <<"Loss", "2">> >>],
    [captions |-> <<"Bases Occupied">>, header |-> Narrow,
     rows |-> << <<"Empty", "6", "2">>,
                 <<"Men On", "4", "1">>,
                 <<"Loaded", "8", "1", "1", "2">> >>],
    [captions |-> <<"Hit Location">>, header |-> Std,
     rows |-> << >>],
    [captions |-> << >>, header |-> Std,
     rows |-> << <<"Stray", "1", "0", "0", "0">> >>]
>>

TableIds == 1..Len(TableMenu)

RECURSIVE SeqsUpTo(_, _)
SeqsUpTo(S, n) ==
    IF n = 0 THEN {<< >>}
    ELSE LET shorter == SeqsUpTo(S, n - 1)
         IN  shorter \cup {Append(q, x) : q \in shorter, x \in S}

\* The table containers of a page, in document order, by their menu index.
Pages == SeqsUpTo(TableIds, MaxTables)

Th(text) == [tag |-> "th", text |-> text]
Td(text) == [tag |-> "td", text |-> text]

ThCells(texts) == [i \in 1..Len(texts) |-> Th(texts[i])]
TdCells(texts) == [i \in 1..Len(texts) |-> Td(texts[i])]

\* The tr rows of menu table t as served for the requested year.
Render(t, yr) ==
    LET tbl == TableMenu[t]
        head == IF yr = << >> THEN <<Th("I")>> \o ThCells(tbl.header)
                ELSE ThCells(tbl.header)
        body(r) == IF yr = << >> THEN <<Th("1")>> \o TdCells(r)
                   ELSE <<Th(Head(r))>> \o TdCells(Tail(r))
    IN  [captions |-> tbl.captions,
         trs |-> <<head>> \o [i \in 1..Len(tbl.rows) |-> body(tbl.rows[i])]]

-----------------------------------------------------------------------------
(* get_splits, lines 79-126: the scan of the table containers.             *)

Texts(cells) == [i \in 1..Len(cells) |-> cells[i].text]

IsTh(c) == c.tag = "th"
IsTd(c) == c.tag = "td"

\* split_type[-5:] == 'Level'
IsLevel(split_type) == Last5(split_type) = "Level"

\* if split_type != "By Inning"  (KeepsRowsMutant: the guard left out)
KeepsRowsMutant(split_type) == TRUE
KeepsRows(split_type) == split_type # "By Inning"

\* [th.get_text() for th in splits[j].find("tr").find_all("th")][1:] or [:],
\* then the three appended names.
Headings(trs, yr) ==
    LET ths == Texts(SelectSeq(Head(trs), IsTh))
        own == IF yr = << >>
               THEN (IF Len(ths) = 0 THEN << >> ELSE Tail(ths))
               ELSE ths
    IN  own \o <<"Split Type", "Player ID", "1B">>

\* The cells of one tr: td only on a career page, th and td on a season page,
\* each text stripped.
Cols(tr, yr) ==
    LET picked == IF yr = << >> THEN SelectSeq(tr, IsTd) ELSE tr
    IN  [i \in 1..Len(picked) |-> Strip(picked[i].text)]

\* What one table container adds to its group's raw rows: the headings, then
\* every tr (the header tr included) unless the caption is "By Inning".
TableRows(trs, yr, split_type, pid) ==
    <<Headings(trs, yr)>> \o
    (IF KeepsRows(split_type)
     THEN [i \in 1..Len(trs) |-> Cols(trs[i], yr) \o <<split_type, pid>>]
     ELSE << >>)

-----------------------------------------------------------------------------
(* get_splits, lines 128-146: the pandas pipeline, on rows of texts.       *)

RECURSIVE MaxLen(_)
MaxLen(rows) ==
    IF rows = << >> THEN 0 ELSE Max(Len(Head(rows)), MaxLen(Tail(rows)))

Pad(r, w) == r \o [i \in 1..(w - Len(r)) |-> None]

\* pd.DataFrame(raw): a rectangle as wide as the longest row, None-padded.
DataFrame(raw) == [i \in 1..Len(raw) |-> Pad(raw[i], MaxLen(raw))]

Positions(names, name) == {i \in 1..Len(names) : names[i] = name}
Pos(names, name) ==
    CHOOSE i \in Positions(names, name) :
        \A k \in Positions(names, name) : i <= k

IndexKeys == {"Player ID", "Split Type", "Split"}
SinglesInputs == {"H", "2B", "3B", "HR"}

Ascending(S) ==
    SelectSeq([i \in 1..(IF S = {} THEN 0 ELSE CHOOSE m \in S : \A k \in S : k <= m) |-> i],
              LAMBDA i : i \in S)

Minus(a, b) == IF a = NaN \/ b = NaN THEN NaN ELSE Num(a[1] - b[1])

\* The table get_splits builds from one group's raw rows: an exception name,
\* or the value columns and the rows, each row with its Split Type and Split
\* index levels and one value per column.
Assemble(raw, pid, singles) ==
    IF raw = << >> THEN [exc |-> "IndexError"]                \* data.iloc[0]
    ELSE
    LET frame == DataFrame(raw)
        names == frame[1]                                      \* rename
        body == Tail(frame)                                    \* reindex
    IN
    IF \E k \in IndexKeys : Positions(names, k) = {}
    THEN [exc |-> "KeyError"]                                  \* set_index
    ELSE
    LET pPid == Pos(names, "Player ID")
        pSt == Pos(names, "Split Type")
        pSplit == Pos(names, "Split")
        isHeader(r) == r[pSplit] = "Split"
        notHeader(r) == r[pSplit] # "Split"
    IN
    IF \A i \in 1..Len(body) : ~isHeader(body[i])
    THEN [exc |-> "KeyError"]                                  \* drop
    ELSE
    LET kept == SelectSeq(body, notHeader)
        valuePos == (1..Len(names)) \ {pPid, pSt, pSplit}
        num(r, p) == to_numeric(kept[r][p])                    \* apply
        live == {p \in valuePos :                              \* dropna
                    \E r \in 1..Len(kept) : num(r, p) # NaN}
        hasAll == \A c \in SinglesInputs :
                     \E p \in live : names[p] = c
    IN
    IF singles /\ ~hasAll THEN [exc |-> "KeyError"]            \* data['H'] ...
    ELSE
    LET col(c) == CHOOSE p \in live : names[p] = c /\
                     \A q \in live : names[q] = c => p <= q
        single(r) == Minus(Minus(Minus(num(r, col("H")), num(r, col("2B"))),
                                 num(r, col("3B"))), num(r, col("HR")))
        order == Ascending(live)
        has1B == \E p \in live : names[p] = "1B"
        columns == [i \in 1..Len(order) |-> names[order[i]]]
                   \o (IF singles /\ ~has1B THEN <<"1B">> ELSE << >>)
        vals(r) == [i \in 1..Len(order) |->
                       IF singles /\ names[order[i]] = "1B" THEN single(r)
                       ELSE num(r, order[i])]
                   \o (IF singles /\ ~has1B THEN <<single(r)>> ELSE << >>)
        mine == SelectSeq([r \in 1..Len(kept) |-> r],
                          LAMBDA r : kept[r][pPid] = pid)
    IN
    IF mine = << >> THEN [exc |-> "KeyError"]                  \* .loc[playerid]
    ELSE [exc |-> "none",
          columns |-> columns,
          rows |-> [i \in 1..Len(mine) |->
                      [st |-> kept[mine[i]][pSt],
                       split |-> kept[mine[i]][pSplit],
                       vals |-> vals(mine[i])]]]

-----------------------------------------------------------------------------
(* get_player_info, lines 32-65.  A biography container is the list of the *)
(* serialised p tags inside one div of class players.                      *)

FullBio == << << "<p><strong>Position:</strong> Centerfielder</p>",
                 "<p><strong>Bats: </strong>Right, <strong>Throws: </strong>Left</p>" >> >>
ShortBio == << << "<p><strong>Position:</strong> Pitcher</p>" >> >>
NoBio == << >>

\* The biographies of the pages the site serves; an error page has none.
Bios == {FullBio, ShortBio}

\* Index of the first c in s at or after position i, 0 if there is none.
RECURSIVE Find(_, _, _)
Find(s, c, i) ==
    IF i > Len(s) THEN 0
    ELSE IF Char(s, i) = c THEN i
    ELSE Find(s, c, i + 1)

\* re.compile(r'>(.*?)<', re.DOTALL).findall(s), scanning from position i.
RECURSIVE FindallFrom(_, _)
FindallFrom(s, i) ==
    LET gt == Find(s, ">", i)
        lt == IF gt = 0 THEN 0 ELSE Find(s, "<", gt + 1)
    IN  IF gt = 0 \/ lt = 0 THEN << >>
        ELSE <<SubSeq(s, gt + 1, lt - 1)>> \o FindallFrom(s, lt + 1)

Findall(s) == FindallFrom(s, 1)

WordChars ==
    Digits \cup
    {"a", "b", "c", "d", "e", "f", "g", "h", "i", "j", "k", "l", "m",
     "n", "o", "p", "q", "r", "s", "t", "u", "v", "w", "x", "y", "z",
     "A", "B", "C", "D", "E", "F", "G", "H", "I", "J", "K", "L", "M",
     "N", "O", "P", "Q", "R", "S", "T", "U", "V", "W", "X", "Y", "Z"}

\* re.compile(r'[\W_]+').sub(' ', s): every run of non-word characters (and
\* underscores) becomes one space.
RECURSIVE SubNonWord(_, _)
SubNonWord(s, inRun) ==
    IF Len(s) = 0 THEN ""
    ELSE IF Char(s, 1) \in WordChars
         THEN Char(s, 1) \o SubNonWord(Tail(s), FALSE)
         ELSE (IF inRun THEN "" ELSE " ") \o SubNonWord(Tail(s), TRUE)

RECURSIVE Flatten(_)
Flatten(ss) == IF ss = << >> THEN << >> ELSE Head(ss) \o Flatten(Tail(ss))

\* fv: the cleaned fragments of every p tag of every container, the empty
\* and the single-space ones left out.
Fragments(bio) ==
    LET ptags == Flatten(bio)
        runs == Flatten([k \in 1..Len(ptags) |-> Findall(ptags[k])])
        cleaned == [k \in 1..Len(runs) |-> SubNonWord(runs[k], FALSE)]
    IN  SelectSeq(cleaned, LAMBDA x : x # "" /\ x # " ")

\* The dictionary get_player_info returns, or the IndexError of fv[1], fv[3]
\* or fv[5] past the end of fv.
get_player_info(bio) ==
    LET fv == Fragments(bio)
    IN  IF Len(fv) < 6 THEN [exc |-> "IndexError"]
        ELSE [exc |-> "none",
              Position |-> fv[2], Bats |-> fv[4], Throws |-> fv[6]]

-----------------------------------------------------------------------------
(* The state machine: one call of get_splits, from the form or directly.   *)

PlayerIds == {"troutmi01"}
YearInputs == {0, 2024}

Unset == [exc |-> "unset"]
NoResult == [tuple |-> FALSE, items |-> << >>]
NoSoup == [tables |-> << >>, bio |-> NoBio]
NoHttp == [url |-> "", status |-> 0]
Nothing == [kind |-> "nothing"]

Statuses == {200, 404, 500}
ErrorStatuses == {404, 500}

\* A success response carries any page and biography; the body of a 404 or
\* 500 response is an error page without tables or biography.
Site == [tables : Pages, bio : Bios]
Bodies(site, status) == IF status = 200 THEN site ELSE {NoSoup}

\* The requests-per-minute ceiling and the interval derived from it.
MaxRequestsPerMinute == 10
MinInterval == 60 \div MaxRequestsPerMinute

Init ==
    /\ pc = "idle"
    /\ caller = "none"
    /\ playerid = ""
    /\ year = << >>
    /\ player_info = FALSE
    /\ pitching_splits = FALSE
    /\ http = NoHttp
    /\ soup = NoSoup
    /\ j = 0
    /\ raw_data = << >>
    /\ raw_level_data = << >>
    /\ data = Unset
    /\ level_data = Unset
    /\ result = NoResult
    /\ exc = "none"
    /\ shown = Nothing
    /\ now = 0
    /\ sent = << >>

\* A fresh invocation: the locals of the previous one are gone.
Enter(who, pid, yr, info, pitching) ==
    /\ pc' = "fetch"
    /\ caller' = who
    /\ playerid' = pid
    /\ year' = yr
    /\ player_info' = info
    /\ pitching_splits' = pitching
    /\ http' = NoHttp
    /\ soup' = NoSoup
    /\ j' = 0
    /\ raw_data' = << >>
    /\ raw_level_data' = << >>
    /\ data' = Unset
    /\ level_data' = Unset
    /\ result' = NoResult
    /\ exc' = "none"
    /\ shown' = Nothing
    /\ UNCHANGED <<now, sent>>

\* The "Get Splits" button: an empty player id only warns; year 0 is Career.
ButtonClick ==
    /\ pc = "idle"
    /\ Len(sent) < MaxRequests
    /\ \E pid \in PlayerIds \cup {""}, y \in YearInputs, pitching \in BOOLEAN :
        IF pid = ""
        THEN /\ shown' = [kind |-> "warning"]
             /\ UNCHANGED <<pc, caller, playerid, year, player_info,
                            pitching_splits, http, soup, j, raw_data,
                            raw_level_data, data, level_data, result, exc,
                            now, sent>>
        ELSE Enter("app", pid, IF y = 0 THEN << >> ELSE <<y>>, FALSE, pitching)

\* get_splits called directly, as the __main__ block does.
DirectCall ==
    /\ pc = "idle"
    /\ Len(sent) < MaxRequests
    /\ \E pid \in PlayerIds, y \in YearInputs,
          info \in BOOLEAN, pitching \in BOOLEAN :
        Enter("api", pid, IF y = 0 THEN << >> ELSE <<y>>, info, pitching)

Url(pid, yr, pitching) ==
    "https://www.baseball-reference.com/players/split.fcgi?id=" \o pid
    \o "&year=" \o (IF yr = << >> THEN "Career" ELSE ToString(yr[1]))
    \o "&t=" \o (IF pitching THEN "p" ELSE "b")

\* get_split_soup: the request goes out at once; a transport failure leaves
\* as the client's exception, any response is parsed whatever its status.
get_split_soup(site) ==
    /\ pc = "fetch"
    /\ sent' = Append(sent, now)
    /\ \E failed \in BOOLEAN, status \in Statuses :
        IF failed
        THEN /\ pc' = "raised"
             /\ exc' = "ConnectionError"
             /\ http' = [url |-> Url(playerid, year, pitching_splits),
                         status |-> 0]
             /\ UNCHANGED <<soup, j>>
        ELSE \E body \in Bodies(site, status) :
             /\ pc' = "scan"
             /\ http' = [url |-> Url(playerid, year, pitching_splits),
                         status |-> status]
             /\ soup' = body
             /\ j' = 1
             /\ UNCHANGED exc
    /\ UNCHANGED <<caller, playerid, year, player_info, pitching_splits,
                   raw_data, raw_level_data, data, level_data, result, shown,
                   now>>

\* One iteration of the loop over the table containers.  The containers of
\* all comments are taken in document order: nothing but raw_data and
\* raw_level_data is carried from one comment to the next.
ScanTable ==
    /\ pc = "scan"
    /\ j <= Len(soup.tables)
    /\ LET table == Render(soup.tables[j], year)
       IN  IF table.captions = << >>
           THEN /\ pc' = "raised"                  \* find_all('caption')[0]
                /\ exc' = "IndexError"
                /\ UNCHANGED <<j, raw_data, raw_level_data>>
           ELSE LET split_type == Strip(table.captions[1])
                    rows == TableRows(table.trs, year, split_type, playerid)
                IN  /\ j' = j + 1
                    /\ IF IsLevel(split_type)
                       THEN /\ raw_level_data' = raw_level_data \o rows
                            /\ UNCHANGED raw_data
                       ELSE /\ raw_data' = raw_data \o rows
                            /\ UNCHANGED raw_level_data
                    /\ UNCHANGED <<pc, exc>>
    /\ UNCHANGED <<caller, playerid, year, player_info, pitching_splits, http,
                   soup, data, level_data, result, shown, now, sent>>

\* Lines 128-136: the aggregate table.
BuildData ==
    /\ pc = "scan"
    /\ j > Len(soup.tables)
    /\ LET built == Assemble(raw_data, playerid, TRUE)
       IN  IF built.exc # "none"
           THEN /\ pc' = "raised"
                /\ exc' = built.exc
                /\ UNCHANGED data
           ELSE /\ pc' = "level"
                /\ data' = built
                /\ UNCHANGED exc
    /\ UNCHANGED <<caller, playerid, year, player_info, pitching_splits, http,
                   soup, j, raw_data, raw_level_data, level_data, result,
                   shown, now, sent>>

\* Lines 138-146: the level table, for a pitching request only.
BuildLevelData ==
    /\ pc = "level"
    /\ LET built == Assemble(raw_level_data, playerid, FALSE)
       IN  IF ~pitching_splits
           THEN /\ pc' = "return"
                /\ UNCHANGED <<level_data, exc>>
           ELSE IF built.exc # "none"
           THEN /\ pc' = "raised"
                /\ exc' = built.exc
                /\ UNCHANGED level_data
           ELSE /\ pc' = "return"
                /\ level_data' = built
                /\ UNCHANGED exc
    /\ UNCHANGED <<caller, playerid, year, player_info, pitching_splits, http,
                   soup, j, raw_data, raw_level_data, data, result, shown,
                   now, sent>>

Frame(f) == [kind |-> "DataFrame", value |-> f]
Dict(d) == [kind |-> "dict", value |-> d]

\* Lines 148-158: what get_splits hands back.  (ReturnValueMutant: the two
\* tables of a pitching request in the wrong order.)
ReturnValueMutant(d, lvl, info_data, info, pitching) ==
    IF ~info
    THEN (IF pitching
          THEN [tuple |-> TRUE, items |-> <<Frame(lvl), Frame(d)>>]
          ELSE [tuple |-> FALSE, items |-> <<Frame(d)>>])
    ELSE (IF pitching
          THEN [tuple |-> TRUE,
                items |-> <<Frame(lvl), Dict(info_data), Frame(d)>>]
          ELSE [tuple |-> TRUE, items |-> <<Frame(d), Dict(info_data)>>])
ReturnValue(d, lvl, info_data, info, pitching) ==
    IF ~info
    THEN (IF pitching
          THEN [tuple |-> TRUE, items |-> <<Frame(d), Frame(lvl)>>]
          ELSE [tuple |-> FALSE, items |-> <<Frame(d)>>])
    ELSE (IF pitching
          THEN [tuple |-> TRUE,
                items |-> <<Frame(d), Dict(info_data), Frame(lvl)>>]
          ELSE [tuple |-> TRUE, items |-> <<Frame(d), Dict(info_data)>>])

Return ==
    /\ pc = "return"
    /\ LET info_data == get_player_info(soup.bio)
       IN  IF player_info /\ info_data.exc # "none"
           THEN /\ pc' = "raised"
                /\ exc' = info_data.exc
                /\ UNCHANGED result
           ELSE /\ pc' = "returned"
                /\ result' = ReturnValue(data, level_data, info_data,
                                         player_info, pitching_splits)
                /\ UNCHANGED exc
    /\ UNCHANGED <<caller, playerid, year, player_info, pitching_splits, http,
                   soup, j, raw_data, raw_level_data, data, level_data, shown,
                   now, sent>>

-----------------------------------------------------------------------------
(* The form's handling of the outcome, bbref_splits_app.py lines 22-64.    *)

CellText(v) == IF v = NaN THEN "" ELSE ToString(v[1])

\* DataFrame.to_csv(): the header line, then one line per row, the two index
\* levels first; a missing value is the empty text.
to_csv(f) ==
    <<<<"Split Type", "Split">> \o f.columns>> \o
    [i \in 1..Len(f.rows) |->
        <<f.rows[i].st, f.rows[i].split>> \o
        [k \in 1..Len(f.rows[i].vals) |-> CellText(f.rows[i].vals[k])]]

FileName(pid, yr, suffix) ==
    pid \o "_" \o (IF yr = << >> THEN "career" ELSE ToString(yr[1])) \o suffix

AppShow ==
    /\ caller = "app"
    /\ pc \in {"returned", "raised"}
    /\ pc' = "shown"
    /\ shown' =
        IF pc = "raised" THEN [kind |-> "error", message |-> exc]
        ELSE IF result.tuple
        THEN (IF \E i \in 1..2 : result.items[i].kind # "DataFrame"
              THEN [kind |-> "error", message |-> "AttributeError"]
              ELSE [kind |-> "downloads",
                    files |-> <<[name |-> FileName(playerid, year, "_splits.csv"),
                                 csv |-> to_csv(result.items[1].value)],
                                [name |-> FileName(playerid, year, "_gamelevel.csv"),
                                 csv |-> to_csv(result.items[2].value)]>>])
        ELSE [kind |-> "downloads",
              files |-> <<[name |-> FileName(playerid, year, "_splits.csv"),
                           csv |-> to_csv(result.items[1].value)]>>]
    /\ UNCHANGED <<caller, playerid, year, player_info, pitching_splits, http,
                   soup, j, raw_data, raw_level_data, data, level_data, result,
                   exc, now, sent>>

Next ==
    \/ ButtonClick
    \/ DirectCall
    \/ get_split_soup(Site)
    \/ ScanTable
    \/ BuildData
    \/ BuildLevelData
    \/ Return
    \/ AppShow

Spec == Init /\ [][Next]_vars

-----------------------------------------------------------------------------
(* Successive requests against the clock.  The call is synchronous, so the *)
(* next request starts only once the previous call is over; the site here  *)
(* serves one page.                                                        *)

OnePage == {[tables |-> <<1>>, bio |-> FullBio]}

Tick ==
    /\ pc = "idle"
    /\ now < MaxClock
    /\ now' = now + 1
    /\ UNCHANGED <<pc, caller, playerid, year, player_info, pitching_splits,
                   http, soup, j, raw_data, raw_level_data, data, level_data,
                   result, exc, shown, sent>>

\* The call is over, its locals are gone and its caller is ready for the
\* next one.
Finish ==
    /\ pc \in {"shown", "returned", "raised"}
    /\ caller = "app" => pc = "shown"
    /\ pc' = "idle"
    /\ caller' = "none"
    /\ playerid' = ""
    /\ year' = << >>
    /\ player_info' = FALSE
    /\ pitching_splits' = FALSE
    /\ http' = NoHttp
    /\ soup' = NoSoup
    /\ j' = 0
    /\ raw_data' = << >>
    /\ raw_level_data' = << >>
    /\ data' = Unset
    /\ level_data' = Unset
    /\ result' = NoResult
    /\ exc' = "none"
    /\ shown' = Nothing
    /\ UNCHANGED <<now, sent>>

NextRate ==
    \/ Tick
    \/ ButtonClick
    \/ DirectCall
    \/ get_split_soup(OnePage)
    \/ ScanTable
    \/ BuildData
    \/ BuildLevelData
    \/ Return
    \/ AppShow
    \/ Finish

SpecRate == Init /\ [][NextRate]_vars

-----------------------------------------------------------------------------
(* What the claims speak of, read off the page that was fetched.           *)

EndsInLevel(text) == Len(text) >= 5 /\ SubSeq(text, Len(text) - 4, Len(text)) = "Level"

Returned == pc \in {"returned", "shown"} /\ result # NoResult

\* The tables of the result, in order.
ResultTables == SelectSeq(result.items, LAMBDA x : x.kind = "DataFrame")
AggregateRows == result.items[1].value.rows
LevelRows == ResultTables[Len(ResultTables)].value.rows
AllRows == Flatten([i \in 1..Len(ResultTables) |-> ResultTables[i].value.rows])

SplitsOf(rows) == {rows[i].split : i \in 1..Len(rows)}

Captioned(k) == TableMenu[soup.tables[k]].captions # << >>
CaptionOf(k) == Strip(TableMenu[soup.tables[k]].captions[1])

\* The data rows of the k-th table of the page whose cell count is (or is
\* not) the length of that table's own header.
DataRows(k, wellFormed) ==
    LET tbl == TableMenu[soup.tables[k]]
    IN  SelectSeq(tbl.rows,
                  LAMBDA r : (Len(r) = Len(tbl.header)) = wellFormed)

Labels(rows) == {rows[i][1] : i \in 1..Len(rows)}

\* The tables routed to the aggregate group that are not "By Inning".
AggregateTables ==
    {k \in 1..Len(soup.tables) :
        Captioned(k) /\ ~EndsInLevel(CaptionOf(k)) /\ CaptionOf(k) # "By Inning"}
ByInningTables ==
    {k \in 1..Len(soup.tables) : Captioned(k) /\ CaptionOf(k) = "By Inning"}

RECURSIVE WellFormedUpTo(_)
WellFormedUpTo(k) ==
    IF k = 0 THEN 0
    ELSE WellFormedUpTo(k - 1) +
         (IF k \in AggregateTables THEN Len(DataRows(k, TRUE)) ELSE 0)

-----------------------------------------------------------------------------
\* C1: the aggregate table get_splits returns has as many rows as there are
\* well-formed data rows (cell count equal to the header length of their own
\* table) over all aggregate tables other than "By Inning", whatever the
\* header widths of the tables.
C1_RowCount ==
    Returned => Len(AggregateRows) = WellFormedUpTo(Len(soup.tables))

\* C2: no row of the returned aggregate table has a Split Type ending in
\* "Level", and every row of the returned level table has one.
C2_Partition ==
    Returned =>
        /\ \A i \in 1..Len(AggregateRows) : ~EndsInLevel(AggregateRows[i].st)
        /\ pitching_splits =>
              \A i \in 1..Len(LevelRows) : EndsInLevel(LevelRows[i].st)

C2_Witness ==
    /\ Returned
    /\ pitching_splits
    /\ Len(AggregateRows) > 0
    /\ Len(LevelRows) > 0
    /\ \E k \in 2..Len(soup.tables) :
          EndsInLevel(CaptionOf(k - 1)) /\ k \in AggregateTables

\* C3: no row of a table captioned "By Inning", data row or header row,
\* is a row of a returned table, wherever that table sits in the page.
C3_ByInningExcluded ==
    Returned =>
        \A i \in 1..Len(AllRows) :
            /\ AllRows[i].st # "By Inning"
            /\ \A k \in ByInningTables :
                  /\ AllRows[i].split \notin Labels(DataRows(k, TRUE))
                  /\ AllRows[i].split \notin Labels(DataRows(k, FALSE))
                  /\ AllRows[i].split # TableMenu[soup.tables[k]].header[1]

C3_Witness ==
    /\ Returned
    /\ 1 \in ByInningTables
    /\ Len(AggregateRows) > 0

\* C4: a row whose cell count differs from the header length of its table is
\* not in the returned tables.
C4_MalformedExcluded ==
    Returned =>
        \A k \in 1..Len(soup.tables) :
            SplitsOf(AllRows) \cap Labels(DataRows(k, FALSE)) = {}

\* C5: in the returned aggregate table 1B is H - 2B - 3B - HR where the four
\* are numeric and unset elsewhere, and a page on which one of the four is
\* absent or never numeric does not make get_splits fail: whenever building
\* the aggregate table failed, it would have failed without the 1B column too.
C5_Singles ==
    /\ Returned =>
          LET f == result.items[1].value
              at(r, c) == f.rows[r].vals[Pos(f.columns, c)]
          IN  \A r \in 1..Len(f.rows) :
                  at(r, "1B") =
                      IF \E c \in SinglesInputs : at(r, c) = NaN THEN NaN
                      ELSE Num(at(r, "H")[1] - at(r, "2B")[1]
                               - at(r, "3B")[1] - at(r, "HR")[1])
    /\ (pc = "raised" /\ j > Len(soup.tables) /\ data = Unset) =>
          Assemble(raw_data, playerid, FALSE).exc # "none"

\* C6: a response with a non-success status (404, 500) ends the call with a
\* FetchError carrying the URL and that status, and with no table.  (A failed
\* transport leaves as the client's own exception and is not needed here.)
C6_FetchError ==
    (pc \notin {"idle", "fetch"} /\ http.status \in ErrorStatuses) =>
        /\ pc \in {"raised", "shown"}
        /\ exc = "FetchError"
        /\ result = NoResult

\* C7: a page with no aggregate table of the expected shape (caption, header,
\* at least one well-formed data row) ends the call with an EmptyResultError,
\* never with a table.
C7_EmptyResult ==
    (pc \in {"returned", "raised"} /\ http.status = 200
        /\ WellFormedUpTo(Len(soup.tables)) = 0) =>
        /\ pc = "raised"
        /\ exc = "EmptyResultError"

\* C8: get_player_info takes fragments 1, 3 and 5, and with fewer than six
\* fragments it returns the missing fields empty instead of failing: once
\* both tables are built, a request with player_info returns.
C8_MissingFields ==
    (pc \in {"returned", "raised"} /\ player_info /\ data # Unset
        /\ (pitching_splits => level_data # Unset)) =>
        /\ pc = "returned"
        /\ LET fv == Fragments(soup.bio)
               d == result.items[2].value
               field(i) == IF i <= Len(fv) THEN fv[i] ELSE ""
           IN  /\ d.Position = field(2)
               /\ d.Bats = field(4)
               /\ d.Throws = field(6)

\* C9: each request is sent at least one minimum interval after the one
\* before it.
C9_MinInterval ==
    \A i \in 1..(Len(sent) - 1) : sent[i + 1] - sent[i] >= MinInterval

\* C10: get_splits returns a level table exactly when pitching_splits is
\* true; a batting request returns the aggregate table alone; the second
\* element of a tuple returned without player_info is the level table, which
\* the form exports as the game-level CSV.
C10_LevelIffPitching ==
    Returned =>
        /\ ResultTables[1].value = data
        /\ Len(ResultTables) = (IF pitching_splits THEN 2 ELSE 1)
        /\ pitching_splits =>
              /\ ResultTables[2].value = level_data
              /\ level_data = Assemble(raw_level_data, playerid, FALSE)
        /\ (~pitching_splits /\ ~player_info) => ~result.tuple
        /\ (result.tuple /\ ~player_info) =>
              /\ result.items[2] = Frame(level_data)
              /\ level_data.exc = "none"
        /\ (pc = "shown" /\ shown.kind = "downloads") =>
              /\ Len(shown.files) = (IF pitching_splits THEN 2 ELSE 1)
              /\ pitching_splits =>
                    /\ shown.files[2].csv = to_csv(level_data)
                    /\ shown.files[2].name =
                          FileName(playerid, year, "_gamelevel.csv")

C10_Witness ==
    /\ pc = "shown"
    /\ pitching_splits
    /\ shown.kind = "downloads"
    /\ Len(shown.files) = 2
    /\ Len(level_data.rows) > 0

=============================================================================
